---- MODULE Spec2Model ----
(***************************************************************************)
(* Model of correlations/eval/parse.py: the result classes that turn a     *)
(* square score / p-value matrix into a list of significant edges, and the *)
(* graph statistics of CorrelationCalcs.                                   *)
(*                                                                         *)
(* Reals are integers in units of 1/Scale (1e-8), one decimal digit finer  *)
(* than the round(x, 7) calls of the source, so that rounding is visible.  *)
(* NaN and +/-inf are integers outside the range of every real value; the  *)
(* F* operators give them IEEE comparison semantics.                       *)
(*                                                                         *)
(* numpy semantics assumed (the numpy of the source's Python 2 era):       *)
(*   - a comparison of a masked array keeps the mask, and nonzero()/sum()  *)
(*     of the result skip masked entries;                                  *)
(*   - unique() sorts ascending, NaN last, and keeps every NaN (NaN # NaN);*)
(*   - a float is accepted as an index; round() is Python 2's, half away   *)
(*     from zero.                                                          *)
(***************************************************************************)
EXTENDS Integers, Sequences, FiniteSets, TLC

\* ---------------------------------------------------------------- bounds
\* Largest number of features (rows of the input matrices).
MaxRows == 3

\* ------------------------------------------------------- number encoding
Scale == 10 ^ 8
NaN == 20 * Scale
inf == 19 * Scale

IsNaN(x) == x = NaN
FLe(a, b) == ~IsNaN(a) /\ ~IsNaN(b) /\ a <= b
FGe(a, b) == ~IsNaN(a) /\ ~IsNaN(b) /\ a >= b
FLt(a, b) == ~IsNaN(a) /\ ~IsNaN(b) /\ a < b
FAdd(a, b) == IF IsNaN(a) \/ IsNaN(b) THEN NaN ELSE a + b
FAbs(a) == IF IsNaN(a) THEN NaN ELSE IF a < 0 THEN -a ELSE a

\* round(x, NDIGITS) of Python 2: to the nearest multiple of 10^-NDIGITS,
\* halves away from zero; NaN and the infinities are kept.
NDIGITS == 7
RoundUnit == Scale \div (10 ^ NDIGITS)
PyRound(x) ==
    IF IsNaN(x) \/ x = inf \/ x = -inf THEN x
    ELSE IF x >= 0 THEN ((2 * x + RoundUnit) \div (2 * RoundUnit)) * RoundUnit
    ELSE -(((2 * (-x) + RoundUnit) \div (2 * RoundUnit)) * RoundUnit)

\* floor(sig/2 * m), ceil(sig/2 * m) and round(sig * m) for a level sig
\* given in units of 1/Scale and a count m.
FloorAlpha(sig, m) == (sig * m) \div (2 * Scale)
CeilAlpha(sig, m) == -((-(sig * m)) \div (2 * Scale))
RoundSig(sig, m) == (2 * sig * m + Scale) \div (2 * Scale)

\* ------------------------------------------------------- sequences, sets
Range(s) == {s[k] : k \in DOMAIN s}
Count(s, x) == Cardinality({k \in DOMAIN s : s[k] = x})
Zip(a, b) == [k \in 1..(IF Len(a) < Len(b) THEN Len(a) ELSE Len(b)) |-> <<a[k], b[k]>>]

SetMin(S) == CHOOSE x \in S : \A y \in S : x <= y

RECURSIVE SortedSeq(_)
SortedSeq(S) ==
    IF S = {} THEN <<>>
    ELSE <<SetMin(S)>> \o SortedSeq(S \ {SetMin(S)})

\* seq[k] with Python's indexing: k counts from 0, a negative k from the end.
PyInRange(s, k) == -Len(s) <= k /\ k < Len(s)
PyIndex(s, k) == IF k < 0 THEN s[Len(s) + k + 1] ELSE s[k + 1]

\* ---------------------------------------------------------------- inputs
\* Feature identifiers, in the order of the input's header line.
OtuNames == <<"o1", "o2", "o3", "o4", "o5">>

Idx(n) == (1..n) \X (1..n)
\* All index pairs in row-major order: the order in which nonzero() reports.
RowMajor(n) == [k \in 1..(n * n) |-> <<((k - 1) \div n) + 1, ((k - 1) % n) + 1>>]
Upper(n) == {ij \in Idx(n) : ij[1] < ij[2]}

\* What one off-diagonal entry of the two input files can hold: a pair
\* <<p-value, score>>.  PLow is 0.05, PHigh 0.5; CLong is 0.12345674, a
\* score with more than NDIGITS decimals; CNeg is -0.5, CHalf 0.5.
PLow == Scale \div 20
PHigh == Scale \div 2
CLong == 0 + 12345674
CNeg == -(Scale \div 2)
CHalf == Scale \div 2
Cells == {<<PLow, CLong>>, <<PLow, CNeg>>, <<PHigh, CHalf>>, <<PLow, 0>>, <<PLow, NaN>>}
\* Entries for the fixed-cutoff extractors: p-values at, above and below a
\* level, a NaN p-value, scores on both sides of the magnitude filter.
CellsFixed == {<<PLow, CLong>>, <<PLow, CNeg>>, <<PHigh, CHalf>>, <<NaN, CHalf>>}
\* Entries for the one-tailed extractors (the p-value is not read).
CellsOneTailed == {<<PLow, CLong>>, <<PLow, CNeg>>, <<PLow, 0>>}
\* Entries for the two-tailed extractor: finite scores only.
CellsTwoTailed == {<<PLow, CLong>>, <<PLow, CNeg>>, <<PHigh, CHalf>>, <<PLow, 0>>}
\* Entries for the graph statistics: a significant and an insignificant one.
CellsOrder == {<<PLow, CLong>>, <<PLow, CNeg>>, <<PHigh, CHalf>>}
CellsStats == {<<PLow, CNeg>>, <<PHigh, CHalf>>}

\* Significance levels and magnitude filters a caller passes.
None == 0 - 1
SigLvls == {0, Scale \div 20, Scale \div 2, Scale}
Filters == {None, (3 * Scale) \div 10}

\* The symmetric matrix with upper triangle u and diagonal d.
Symmetric(n, u, d) ==
    [ij \in Idx(n) |-> IF ij[1] = ij[2] THEN d
                       ELSE IF ij[1] < ij[2] THEN u[ij]
                       ELSE u[<<ij[2], ij[1]>>]]

VARIABLES
    rows,            \* number of features of the input
    pval_lines,      \* parsed p-value file: rows x rows matrix
    cval_lines,      \* parsed score file: rows x rows matrix
    lines,           \* data lines of an edge-list file (its header left out)
    hashOrder,       \* iteration order of a set of feature ids (by hash)
    kind,            \* class of the object, "none" before construction
    err,             \* exception raised by the last call, or "none"
    lastOp,          \* last call made on the object
    arg_sig, arg_filter, arg_empirical,   \* arguments of the last call
    attrs,           \* names of the attributes set on the object
    data,            \* self.data / self.pdata
    cdata,           \* self.cdata (BrayCurtis, MIC: self.data)
    sig_edges, otu1, otu2, sig_otus, edges, pvals, cvals, interactions,
    actual_sig_lvl,
    ret              \* value returned by the last statistics call

inputVars == <<rows, pval_lines, cval_lines, lines, hashOrder>>
callVars == <<lastOp, arg_sig, arg_filter, arg_empirical>>
matVars == <<data, cdata>>
edgeVars == <<sig_edges, otu1, otu2, sig_otus, edges, pvals>>
vars == <<inputVars, kind, err, callVars, attrs, matVars, edgeVars, cvals,
          interactions, actual_sig_lvl, ret>>

otu_ids == SubSeq(OtuNames, 1, rows)

\* list(set(xs)): the distinct elements of xs in the set's iteration order.
ListSet(xs) == SelectSeq(hashOrder, LAMBDA x : x \in Range(xs))

\* ------------------------------------------------- derived object fields
Otu1Of(se) == [k \in DOMAIN se |-> otu_ids[se[k][1]]]
Otu2Of(se) == [k \in DOMAIN se |-> otu_ids[se[k][2]]]
ValuesAt(m, se) == [k \in DOMAIN se |-> m[se[k]]]

\* The loop of _getLPSAndInteractions: a label is appended when the score
\* is >= 0, another when it is < 0, none otherwise.
Label(x) == IF FGe(x, 0) THEN "copresence" ELSE "mutualExclusion"
Labelled(x) == FGe(x, 0) \/ FLt(x, 0)
Interactions(cv) ==
    LET kept == SelectSeq(cv, Labelled)
    IN  [k \in DOMAIN kept |-> Label(kept[k])]

\* mask[tril_indices(rows, 0)] = 1: the diagonal and the lower triangle.
Masked(ij) == ij[2] <= ij[1]

\* unique(m[triu_indices(rows, 1)]): the distinct upper-triangle values,
\* ascending, followed by one NaN for every NaN entry.
Unique(m, n) ==
    LET nums == {m[ij] : ij \in Upper(n)} \ {NaN}
        nans == Cardinality({ij \in Upper(n) : IsNaN(m[ij])})
    IN  SortedSeq(nums) \o [k \in 1..nans |-> NaN]

\* --------------------------------------------------------- SparCCResults
TRIL_FILL == 10
\* Mutant: the lower triangle and the diagonal are not lifted above sig_lvl.
Tril10_NoFill(ij) == 0
\* tril(10*ones((rows, cols)), 0)
Tril10(ij) == IF ij[2] <= ij[1] THEN TRIL_FILL * Scale ELSE 0
\* triu(m, 1): m multiplied by the 0/1 upper-triangle mask.
Triu1(m, ij) == IF ij[1] < ij[2] THEN m[ij] ELSE IF IsNaN(m[ij]) THEN NaN ELSE 0

SparCC_se(d, sig, ij) == FLe(FAdd(Tril10(ij), d[ij]), sig)
SparCC_pe(c, pf, ij) == FGe(FAbs(Triu1(c, ij)), pf)
SparCC_sig_edges(n, d, c, sig, pf) ==
    SelectSeq(RowMajor(n),
              LAMBDA ij : IF pf # None
                          THEN SparCC_se(d, sig, ij) /\ SparCC_pe(c, pf, ij)
                          ELSE SparCC_se(d, sig, ij))

\* ---------------------------------------------------------- NaiveResults
\* nan pdata gets a p-value of 1, and the score at the same place 0.
Naive_pdata(p) == [ij \in DOMAIN p |-> IF IsNaN(p[ij]) THEN Scale ELSE p[ij]]
Naive_cdata(p, c) == [ij \in DOMAIN c |-> IF IsNaN(p[ij]) THEN 0 ELSE c[ij]]

Naive_lb(c, n, sig) ==
    IF sig = 0 THEN -inf
    ELSE PyRound(PyIndex(Unique(c, n), FloorAlpha(sig, Len(Unique(c, n)))))
Naive_ub(c, n, sig) ==
    IF sig = 0 THEN inf
    ELSE PyRound(PyIndex(Unique(c, n), -CeilAlpha(sig, Len(Unique(c, n)))))
\* cvals[floor(...)] or cvals[-ceil(...)] is out of range: both are indexed
\* before sig_lvl is compared with 0.
Naive_IndexError(c, n, sig) ==
    LET u == Unique(c, n)
    IN  \/ ~PyInRange(u, FloorAlpha(sig, Len(u)))
        \/ ~PyInRange(u, -CeilAlpha(sig, Len(u)))
\* where(mdata >= ub, 1, 0).nonzero() and where(mdata <= lb, 1, 0).nonzero()
AtLeast(n, c, ub) == SelectSeq(RowMajor(n), LAMBDA ij : ~Masked(ij) /\ FGe(c[ij], ub))
AtMost(n, c, lb) == SelectSeq(RowMajor(n), LAMBDA ij : ~Masked(ij) /\ FLe(c[ij], lb))
\* Mutant: the two tails are stacked the other way round.
Naive_sig_edges_LowerFirst(n, p, c, sig, emp) ==
    IF emp
    THEN AtMost(n, c, Naive_lb(c, n, sig)) \o AtLeast(n, c, Naive_ub(c, n, sig))
    ELSE AtMost(n, p, sig)
Naive_sig_edges(n, p, c, sig, emp) ==
    IF emp
    THEN AtLeast(n, c, Naive_ub(c, n, sig)) \o AtMost(n, c, Naive_lb(c, n, sig))
    ELSE AtMost(n, p, sig)

\* ------------------------------------------- BrayCurtisResults, MICResults
BC_IndexError(c, n, sig) ==
    ~PyInRange(Unique(c, n), RoundSig(sig, Len(Unique(c, n))) - 1)
MIC_IndexError(c, n, sig) ==
    ~PyInRange(Unique(c, n), -RoundSig(sig, Len(Unique(c, n))))
BC_lb(c, n, sig) ==
    PyRound(PyIndex(Unique(c, n), RoundSig(sig, Len(Unique(c, n))) - 1))
BC_sig_edges(n, c, sig) == AtMost(n, c, BC_lb(c, n, sig))

MIC_ub(c, n, sig) ==
    PyRound(PyIndex(Unique(c, n), -RoundSig(sig, Len(Unique(c, n)))))
MIC_sig_edges(n, c, sig) == AtLeast(n, c, MIC_ub(c, n, sig))

\* (mdata <= lb).sum() / float(n*(n-1)/2), kept as <<numerator, denominator>>.
CountAtMost(n, c, lb) == Cardinality({ij \in Idx(n) : ~Masked(ij) /\ FLe(c[ij], lb)})
CountAtLeast(n, c, ub) == Cardinality({ij \in Idx(n) : ~Masked(ij) /\ FGe(c[ij], ub)})
BC_actual_sig_lvl(n, c, sig) ==
    <<CountAtMost(n, c, BC_lb(c, n, sig)), (n * (n - 1)) \div 2>>
MIC_actual_sig_lvl(n, c, sig) ==
    <<CountAtLeast(n, c, MIC_ub(c, n, sig)), (n * (n - 1)) \div 2>>

\* ------------------------------------------------------ CorrelationCalcs
copresences == Count(interactions, "copresence")
exclusions == Count(interactions, "mutualExclusion")

\* Mutant: only the first endpoint of an edge is counted.
Degree_Otu1Only(x) == Count(otu1, x)
Degree(x) == Count(otu1, x) + Count(otu2, x)
DegreeList == [k \in DOMAIN sig_otus |-> Degree(sig_otus[k])]
SeqMax(s) == CHOOSE x \in Range(s) : \A y \in Range(s) : y <= x

\* bincount(xs): h[d + 1] is the number of entries of xs equal to d.
Bincount(xs) ==
    IF xs = <<>> THEN <<>>
    ELSE [d1 \in 1..(SeqMax(xs) + 1) |-> Count(xs, d1 - 1)]
connectionAbundance == Bincount(DegreeList)

RECURSIVE SumSeq(_)
SumSeq(s) == IF s = <<>> THEN 0 ELSE s[1] + SumSeq(Tail(s))
\* (ca * arange(len(ca))).sum() / ca.sum(), as <<numerator, denominator>>.
avgConnectivity ==
    LET ca == connectionAbundance
    IN  <<SumSeq([d1 \in DOMAIN ca |-> ca[d1] * (d1 - 1)]), SumSeq(ca)>>

\* Mutant: a sort that is not stable (equal keys come out reversed).
SortedDesc_TiesReversed(tmp) ==
    LET Pos(k) == Cardinality({j \in DOMAIN tmp : tmp[j][2] > tmp[k][2]})
                  + Cardinality({j \in DOMAIN tmp : j > k /\ tmp[j][2] = tmp[k][2]})
                  + 1
    IN  [q \in DOMAIN tmp |-> tmp[CHOOSE k \in DOMAIN tmp : Pos(k) = q]]
\* sorted(tmp, key=itemgetter(1), reverse=True): by decreasing second
\* component; the sort is stable, so equal keys keep the order of tmp.
SortedDesc(tmp) ==
    LET Pos(k) == Cardinality({j \in DOMAIN tmp : tmp[j][2] > tmp[k][2]})
                  + Cardinality({j \in DOMAIN tmp : j < k /\ tmp[j][2] = tmp[k][2]})
                  + 1
    IN  [q \in DOMAIN tmp |-> tmp[CHOOSE k \in DOMAIN tmp : Pos(k) = q]]
otuConnectivity ==
    SortedDesc([k \in DOMAIN sig_otus |-> <<sig_otus[k], Degree(sig_otus[k])>>])

\* ------------------------------------------------------------ the machine
NoRet == [op |-> "none", val |-> <<>>]

\* Every order a set of the n feature ids can iterate in.
Orders(n) == {o \in [1..n -> Range(SubSeq(OtuNames, 1, n))] :
                 \A a, b \in 1..n : a # b => o[a] # o[b]}
\* Two of them: the order of the header, and its reverse.
TwoOrders(n) == {SubSeq(OtuNames, 1, n), [k \in 1..n |-> OtuNames[n + 1 - k]]}

\* No object yet.
Blank ==
    /\ kind = "none" /\ err = "none" /\ lastOp = "none"
    /\ arg_sig = 0 /\ arg_filter = None /\ arg_empirical = FALSE
    /\ attrs = {}
    /\ data = <<>> /\ cdata = <<>>
    /\ sig_edges = <<>> /\ otu1 = <<>> /\ otu2 = <<>> /\ sig_otus = <<>>
    /\ edges = <<>> /\ pvals = <<>> /\ cvals = <<>> /\ interactions = <<>>
    /\ actual_sig_lvl = <<0, 1>>
    /\ ret = NoRet

\* The input files: symmetric matrices with entries from cells, p-value
\* diagonal 0 and score diagonal 1.
MatrixInput(cells) ==
    /\ rows \in 2..MaxRows
    /\ \E u \in [Upper(rows) -> cells] :
         /\ pval_lines = Symmetric(rows, [ij \in Upper(rows) |-> u[ij][1]], 0)
         /\ cval_lines = Symmetric(rows, [ij \in Upper(rows) |-> u[ij][2]], Scale)

\* One data line of an edge-list file: <<id1, id2, score, p-value>>.
LineOf(ij) == <<otu_ids[ij[1]], otu_ids[ij[2]], cval_lines[ij], pval_lines[ij]>>
UpperSeq(n) == SelectSeq(RowMajor(n), LAMBDA ij : ij[1] < ij[2])
\* The same scores as an edge-list file: "redundant" has a line for every
\* (row, column), n*n lines in row-major order; "unique" has a line for
\* every pair row < column.
LinesOf(layout) ==
    IF layout = "redundant" THEN [k \in 1..(rows * rows) |-> LineOf(RowMajor(rows)[k])]
    ELSE [k \in DOMAIN UpperSeq(rows) |-> LineOf(UpperSeq(rows)[k])]
Layouts == {"redundant", "unique"}

\* Input files that hold a header line and no data line.
HeaderOnly ==
    /\ rows = 0
    /\ pval_lines = <<>> /\ cval_lines = <<>>
    /\ lines = <<>>

Init ==
    /\ \/ MatrixInput(Cells) /\ lines \in {LinesOf(l) : l \in Layouts}
       \/ HeaderOnly
    /\ hashOrder \in TwoOrders(rows)
    /\ Blank

EdgeAttrs == {"sig_edges", "otu1", "otu2", "sig_otus", "edges"}

\* The assignments every _getSignificantData ends with.
SetEdges(se) ==
    /\ sig_edges' = se
    /\ otu1' = Otu1Of(se)
    /\ otu2' = Otu2Of(se)
    /\ sig_otus' = ListSet(Otu1Of(se) \o Otu2Of(se))
    /\ edges' = Zip(Otu1Of(se), Otu2Of(se))

\* _getLPSAndInteractions
SetLPS(se, c) ==
    /\ cvals' = ValuesAt(c, se)
    /\ interactions' = Interactions(ValuesAt(c, se))

Called(op, sig, pf, emp) ==
    /\ ret = NoRet
    /\ lastOp' = op /\ arg_sig' = sig /\ arg_filter' = pf /\ arg_empirical' = emp
    /\ UNCHANGED ret

\* An object exists: its constructor returned.
Constructed == kind # "none" /\ ~(lastOp = "__init__" /\ err # "none")

\* A call that raises e after the parsing set the attributes at: no field
\* of the edge list is assigned.
Failed(op, sig, emp, e, at) ==
    /\ err' = e
    /\ Called(op, sig, None, emp)
    /\ attrs' = attrs \cup at
    /\ UNCHANGED <<inputVars, edgeVars, cvals, interactions, actual_sig_lvl>>

\* SparCCResults(pval_lines, corr_lines, sig, pf)
NewSparCC(sig, pf) ==
    /\ kind = "none"
    /\ kind' = "SparCC" /\ err' = "none"
    /\ Called("__init__", sig, pf, FALSE)
    /\ data' = pval_lines /\ cdata' = cval_lines
    /\ LET se == SparCC_sig_edges(rows, pval_lines, cval_lines, sig, pf)
       IN  /\ SetEdges(se)
           /\ pvals' = ValuesAt(pval_lines, se)
           /\ SetLPS(se, cval_lines)
    /\ attrs' = EdgeAttrs \cup {"data", "cdata", "otu_ids", "pvals", "cvals", "interactions"}
    /\ UNCHANGED <<inputVars, actual_sig_lvl>>

\* SparCCResults.changeSignificance(sig): _getSignificantData is called
\* without its pearson_filter argument, which has no default: TypeError.
SparCC_changeSignificance(sig) ==
    /\ kind = "SparCC"
    /\ err' = "TypeError"
    /\ Called("changeSignificance", sig, arg_filter, FALSE)
    /\ UNCHANGED <<inputVars, kind, attrs, matVars, edgeVars, cvals, interactions,
                   actual_sig_lvl>>

\* NaiveResults(cval_lines, pval_lines, sig, emp)
NewNaive(sig, emp) ==
    /\ kind = "none"
    /\ kind' = "Naive"
    /\ data' = Naive_pdata(pval_lines)
    /\ cdata' = Naive_cdata(pval_lines, cval_lines)
    /\ LET p == Naive_pdata(pval_lines)
           c == Naive_cdata(pval_lines, cval_lines)
       IN  IF emp /\ Naive_IndexError(c, rows, sig)
           THEN Failed("__init__", sig, emp, "IndexError", {"pdata", "cdata", "otu_ids"})
           ELSE /\ err' = "none"
                /\ Called("__init__", sig, None, emp)
                /\ LET se == Naive_sig_edges(rows, p, c, sig, emp)
                   IN  /\ SetEdges(se)
                       /\ pvals' = ValuesAt(p, se)
                       /\ SetLPS(se, c)
                /\ attrs' = EdgeAttrs \cup {"pdata", "cdata", "otu_ids", "pvals", "cvals",
                                            "interactions"}
                /\ UNCHANGED <<inputVars, actual_sig_lvl>>

\* NaiveResults.changeSignificance(sig, emp)
Naive_changeSignificance(sig, emp) ==
    /\ kind = "Naive"
    /\ Constructed
    /\ UNCHANGED <<kind, matVars>>
    /\ IF emp /\ Naive_IndexError(cdata, rows, sig)
       THEN Failed("changeSignificance", sig, emp, "IndexError", {})
       ELSE /\ err' = "none"
            /\ Called("changeSignificance", sig, None, emp)
            /\ LET se == Naive_sig_edges(rows, data, cdata, sig, emp)
               IN  /\ SetEdges(se)
                   /\ pvals' = ValuesAt(data, se)
                   /\ SetLPS(se, cdata)
            /\ UNCHANGED <<inputVars, attrs, actual_sig_lvl>>

\* Mutant: the constructors do not check sig_lvl.
SigLvlRejected_Never(sig) == FALSE
\* The check that opens BrayCurtisResults.__init__ and MICResults.__init__.
SigLvlRejected(sig) == sig = 0

Raised(op, sig, e) ==
    /\ err' = e
    /\ Called(op, sig, None, FALSE)
    /\ UNCHANGED <<inputVars, attrs, matVars, edgeVars, cvals, interactions,
                   actual_sig_lvl>>

\* BrayCurtisResults(dissim_lines, sig); the dissimilarities are cval_lines.
NewBrayCurtis(sig) ==
    /\ kind = "none"
    /\ kind' = "BrayCurtis"
    /\ IF SigLvlRejected(sig)
       THEN Raised("__init__", sig, "ValueError")
       ELSE IF BC_IndexError(cval_lines, rows, sig)
       THEN /\ Failed("__init__", sig, FALSE, "IndexError", {"data", "otu_ids"})
            /\ data' = data /\ cdata' = cval_lines
       ELSE /\ err' = "none"
            /\ Called("__init__", sig, None, FALSE)
            /\ data' = data /\ cdata' = cval_lines
            /\ actual_sig_lvl' = BC_actual_sig_lvl(rows, cval_lines, sig)
            /\ LET se == BC_sig_edges(rows, cval_lines, sig)
               IN  /\ SetEdges(se)
                   /\ cvals' = ValuesAt(cval_lines, se)
                   /\ interactions' = [k \in DOMAIN se |-> "copresence"]
            /\ attrs' = EdgeAttrs \cup {"data", "otu_ids", "actual_sig_lvl", "cvals",
                                        "interactions"}
            /\ UNCHANGED <<inputVars, pvals>>

\* MICResults(mic_lines, feature_names, sig); the MIC scores are cval_lines.
NewMIC(sig) ==
    /\ kind = "none"
    /\ kind' = "MIC"
    /\ IF SigLvlRejected(sig)
       THEN Raised("__init__", sig, "ValueError")
       ELSE IF rows = 0
       THEN \* array([]) has shape (0,): rows,cols = self.data.shape cannot unpack
            /\ Failed("__init__", sig, FALSE, "ValueError", {"data", "otu_ids"})
            /\ data' = data /\ cdata' = cval_lines
       ELSE IF MIC_IndexError(cval_lines, rows, sig)
       THEN /\ Failed("__init__", sig, FALSE, "IndexError", {"data", "otu_ids"})
            /\ data' = data /\ cdata' = cval_lines
       ELSE /\ err' = "none"
            /\ Called("__init__", sig, None, FALSE)
            /\ data' = data /\ cdata' = cval_lines
            /\ actual_sig_lvl' = MIC_actual_sig_lvl(rows, cval_lines, sig)
            /\ LET se == MIC_sig_edges(rows, cval_lines, sig)
               IN  /\ SetEdges(se)
                   /\ cvals' = ValuesAt(cval_lines, se)
                   /\ interactions' = [k \in DOMAIN se |-> "copresence"]
            /\ attrs' = EdgeAttrs \cup {"data", "otu_ids", "actual_sig_lvl", "cvals",
                                        "interactions"}
            /\ UNCHANGED <<inputVars, pvals>>

\* ---------------------------------- RMTResults, CoNetResults, LSAResults
LineOtu1(ls) == [k \in DOMAIN ls |-> ls[k][1]]
LineOtu2(ls) == [k \in DOMAIN ls |-> ls[k][2]]
LineScores(ls) == [k \in DOMAIN ls |-> ls[k][3]]
LinePvals(ls) == [k \in DOMAIN ls |-> ls[k][4]]

\* The fields every edge-list class sets from the lines it keeps.
SetLineEdges(ls) ==
    /\ otu1' = LineOtu1(ls)
    /\ otu2' = LineOtu2(ls)
    /\ sig_otus' = ListSet(LineOtu1(ls) \o LineOtu2(ls))
    /\ edges' = Zip(LineOtu1(ls), LineOtu2(ls))

\* RMTResults(lines): every data line is an edge; the label comes from the
\* sign of the score, with the same if / elif as SparCCResults.
NewRMT ==
    /\ kind = "none"
    /\ kind' = "RMT" /\ err' = "none"
    /\ Called("__init__", 0, None, FALSE)
    /\ SetLineEdges(lines)
    /\ cvals' = LineScores(lines)
    /\ interactions' = Interactions(LineScores(lines))
    /\ attrs' = {"otu1", "otu2", "sig_otus", "edges", "scores", "cvals", "interactions",
                 "sigs"}
    /\ UNCHANGED <<inputVars, matVars, sig_edges, pvals, actual_sig_lvl>>

\* The interaction column of a CoNet file, and the cvals made from it.
CoNetLabels(ls) == [k \in DOMAIN ls |-> Label(ls[k][3])]
CoNetCvals(ls) ==
    [k \in DOMAIN ls |-> IF CoNetLabels(ls)[k] = "copresence" THEN Scale ELSE -Scale]

\* CoNetResults(lines): with the header alone, _hackish_empty_results_fix.
NewCoNet ==
    /\ kind = "none"
    /\ kind' = "CoNet" /\ err' = "none"
    /\ Called("__init__", 0, None, FALSE)
    /\ SetLineEdges(lines)
    /\ pvals' = LinePvals(lines)
    /\ interactions' = CoNetLabels(lines)
    /\ IF Len(lines) = 0
       THEN /\ attrs' = {"otu1", "otu2", "sig_otus", "edges", "interactions", "pvals",
                         "qvals", "sigs"}
            /\ UNCHANGED cvals
       ELSE /\ attrs' = {"otu1", "otu2", "sig_otus", "edges", "interactions", "pvals",
                         "qvals", "cvals", "sigs", "scores", "methods"}
            /\ cvals' = CoNetCvals(lines)
    /\ UNCHANGED <<inputVars, matVars, sig_edges, actual_sig_lvl>>

\* int(x ** .5)
ISqrt(x) == CHOOSE r \in 0..x : r * r <= x /\ (r + 1) * (r + 1) > x

\* Mutant: the comparison lets the main diagonal through.
triu_from_flattened_WithDiagonal(n, offset) ==
    SelectSeq([i \in 1..(n * n) |-> i], LAMBDA i : i % n >= offset + (i \div n))
\* triu_from_flattened(n, offset): the i in 1..n*n with i % n > offset + i / n.
triu_from_flattened(n, offset) ==
    SelectSeq([i \in 1..(n * n) |-> i], LAMBDA i : i % n > offset + (i \div n))

\* LSAResults._isSignificant
isSignificant(line, sig) == FLt(line[4], sig)

LSAFilters == {"ls", "ss", "sp", "gs", "gp"}
\* The lines of interest: loi, as indices into the data lines counted from 0.
LSA_rtype(rtype) ==
    IF rtype # "autodetect" THEN rtype
    ELSE IF lines[1][1] = lines[1][2] THEN "redundant" ELSE "unique"
LSA_loi(rtype) ==
    IF LSA_rtype(rtype) = "redundant" THEN triu_from_flattened(ISqrt(Len(lines)), 0)
    ELSE [k \in 1..Len(lines) |-> k - 1]
LSA_kept(rtype, sig) ==
    LET loi == LSA_loi(rtype)
        seen == [k \in DOMAIN loi |-> lines[loi[k] + 1]]
    IN  SelectSeq(seen, LAMBDA line : isSignificant(line, sig))

\* LSAResults(lines, filter, sig, rtype)
NewLSA(filter, sig, rtype) ==
    /\ kind = "none"
    /\ kind' = "LSA"
    /\ Called("__init__", sig, None, FALSE)
    /\ IF filter \notin LSAFilters
       THEN /\ err' = "ValueError"
            /\ attrs' = {"otu1", "otu2", "pvals", "interactions", "scores", "cvals"}
            /\ UNCHANGED <<inputVars, matVars, edgeVars, cvals, interactions,
                           actual_sig_lvl>>
       ELSE IF rtype = "autodetect" /\ Len(lines) = 0
       THEN /\ err' = "IndexError"
            /\ attrs' = {"otu1", "otu2", "pvals", "interactions", "scores", "cvals",
                         "filter_ind", "value_filter_ind"}
            /\ UNCHANGED <<inputVars, matVars, edgeVars, cvals, interactions,
                           actual_sig_lvl>>
       ELSE /\ err' = "none"
            /\ LET ls == LSA_kept(rtype, sig)
               IN  /\ SetLineEdges(ls)
                   /\ pvals' = LinePvals(ls)
                   /\ cvals' = LineScores(ls)
                   /\ interactions' = [k \in DOMAIN ls |-> Label(ls[k][3])]
            /\ attrs' = {"otu1", "otu2", "pvals", "interactions", "scores", "cvals",
                         "filter_ind", "value_filter_ind", "edges", "data", "sig_otus"}
            /\ UNCHANGED <<inputVars, matVars, sig_edges, actual_sig_lvl>>

RTypes == {"redundant", "unique", "autodetect"}

\* A statistics method is called; it returns val or raises e.
Stat(op, val, e) ==
    /\ Constructed
    /\ ret = NoRet
    /\ ret' = [op |-> op, val |-> val]
    /\ lastOp' = op
    /\ err' = e
    /\ UNCHANGED <<inputVars, kind, arg_sig, arg_filter, arg_empirical, attrs, matVars,
                   edgeVars, cvals, interactions, actual_sig_lvl>>

\* bincount of an empty list raises ValueError in the numpy releases that
\* refuse an empty first argument, and returns an empty array in the others.
Call_connectionAbundance ==
    \/ Stat("connectionAbundance", connectionAbundance, "none")
    \/ sig_otus = <<>> /\ Stat("connectionAbundance", <<>>, "ValueError")
Call_avgConnectivity ==
    \/ Stat("avgConnectivity", avgConnectivity, "none")
    \/ sig_otus = <<>> /\ Stat("avgConnectivity", <<>>, "ValueError")
Call_otuConnectivity == Stat("otuConnectivity", otuConnectivity, "none")

Next ==
    \/ \E sig \in SigLvls, pf \in Filters : NewSparCC(sig, pf)
    \/ \E sig \in SigLvls : SparCC_changeSignificance(sig)
    \/ \E sig \in SigLvls, emp \in BOOLEAN : NewNaive(sig, emp)
    \/ \E sig \in SigLvls, emp \in BOOLEAN : Naive_changeSignificance(sig, emp)
    \/ \E sig \in SigLvls : NewBrayCurtis(sig)
    \/ \E sig \in SigLvls : NewMIC(sig)
    \/ NewRMT
    \/ NewCoNet
    \/ \E f \in {"ls", "xx"}, sig \in SigLvls, rtype \in RTypes : NewLSA(f, sig, rtype)
    \/ Call_connectionAbundance
    \/ Call_avgConnectivity
    \/ Call_otuConnectivity

Spec == Init /\ [][Next]_vars

\* ------------------------------------------------ further specifications
\* The fixed-cutoff extractors alone.
InitFixed ==
    /\ MatrixInput(CellsFixed)
    /\ lines = <<>>
    /\ hashOrder = otu_ids
    /\ Blank
NextFixed ==
    \/ \E sig \in SigLvls, pf \in Filters : NewSparCC(sig, pf)
    \/ \E sig \in SigLvls : NewNaive(sig, FALSE)
SpecFixed == InitFixed /\ [][NextFixed]_vars

\* The two-tailed empirical extractor alone, on finite scores.
InitTwoTailed ==
    /\ MatrixInput(CellsTwoTailed)
    /\ lines = <<>>
    /\ hashOrder = otu_ids
    /\ Blank
NextTwoTailed ==
    \/ \E sig \in SigLvls : NewNaive(sig, TRUE)
    \/ \E sig \in SigLvls : Naive_changeSignificance(sig, TRUE)
SpecTwoTailed == InitTwoTailed /\ [][NextTwoTailed]_vars

\* The one-tailed extractors alone.
InitOneTailed ==
    /\ MatrixInput(CellsOneTailed)
    /\ lines = <<>>
    /\ hashOrder = otu_ids
    /\ Blank
NextOneTailed ==
    \/ \E sig \in SigLvls : NewBrayCurtis(sig)
    \/ \E sig \in SigLvls : NewMIC(sig)
SpecOneTailed == InitOneTailed /\ [][NextOneTailed]_vars

\* The four matrix classes, and NaiveResults.changeSignificance, on finite
\* scores.
InitOrder ==
    /\ MatrixInput(CellsOrder)
    /\ lines = <<>>
    /\ hashOrder = otu_ids
    /\ Blank
NextOrder ==
    \/ \E sig \in SigLvls, pf \in Filters : NewSparCC(sig, pf)
    \/ \E sig \in SigLvls, emp \in BOOLEAN : NewNaive(sig, emp)
    \/ \E sig \in SigLvls, emp \in BOOLEAN : Naive_changeSignificance(sig, emp)
    \/ \E sig \in SigLvls : NewBrayCurtis(sig)
    \/ \E sig \in SigLvls : NewMIC(sig)
SpecOrder == InitOrder /\ [][NextOrder]_vars

\* LSAResults reading a row/column-redundant file.
InitRedundant ==
    /\ MatrixInput(CellsFixed)
    /\ lines = LinesOf("redundant")
    /\ hashOrder = otu_ids
    /\ Blank
NextRedundant ==
    \E sig \in SigLvls, rtype \in {"redundant", "autodetect"} : NewLSA("ls", sig, rtype)
SpecRedundant == InitRedundant /\ [][NextRedundant]_vars

\* Every class on small inputs with every iteration order of the id set,
\* and the statistics of the result.
InitStats ==
    /\ MatrixInput(CellsStats)
    /\ lines \in {LinesOf(l) : l \in Layouts}
    /\ hashOrder \in Orders(rows)
    /\ Blank
NextStats ==
    \/ \E sig \in SigLvls : NewSparCC(sig, None)
    \/ \E sig \in SigLvls, emp \in BOOLEAN : NewNaive(sig, emp)
    \/ \E sig \in SigLvls : NewBrayCurtis(sig)
    \/ \E sig \in SigLvls : NewMIC(sig)
    \/ NewRMT
    \/ NewCoNet
    \/ \E sig \in SigLvls, rtype \in Layouts : NewLSA("ls", sig, rtype)
    \/ Call_connectionAbundance
    \/ Call_avgConnectivity
    \/ Call_otuConnectivity
SpecStats == InitStats /\ [][NextStats]_vars

\* The worked example in the comment of BrayCurtisResults._getSignificantData:
\* five features whose ten dissimilarities are, in tenths,
\* .1 .2 .2 .2 .2 .3 .4 .5 .6 .6, laid over the upper triangle in row-major
\* order from any starting place.
Tenth == Scale \div 10
ExampleTenths == <<1, 2, 2, 2, 2, 3, 4, 5, 6, 6>>
PlaceOf(n, ij) == CHOOSE k \in DOMAIN UpperSeq(n) : UpperSeq(n)[k] = ij
InitBC5 ==
    /\ rows = Len(OtuNames)
    /\ \E r \in 0..(Len(ExampleTenths) - 1) :
         cval_lines = Symmetric(rows,
                          [ij \in Upper(rows) |->
                              Tenth * ExampleTenths[((PlaceOf(rows, ij) - 1 + r)
                                                     % Len(ExampleTenths)) + 1]],
                          0)
    /\ pval_lines = [ij \in Idx(rows) |-> 0]
    /\ lines = <<>>
    /\ hashOrder = otu_ids
    /\ Blank
NextBC5 == \E k \in 0..Len(ExampleTenths) : NewBrayCurtis(k * Tenth)
SpecBC5 == InitBC5 /\ [][NextBC5]_vars

\* ------------------------------------------------------------- the claims
MatrixKinds == {"SparCC", "Naive", "BrayCurtis", "MIC"}
NoRepeat(s) == \A k, l \in DOMAIN s : k # l => s[k] # s[l]
Mirror(ij) == <<ij[2], ij[1]>>

\* C1: the edge list of every matrix-based extractor holds no self-pair
\* (i,i), never both (i,j) and (j,i), and no index pair more than once.
C1_NoSelfMirrorRepeat ==
    (Constructed /\ kind \in MatrixKinds) =>
        /\ \A k \in DOMAIN sig_edges : sig_edges[k][1] # sig_edges[k][2]
        /\ \A k, l \in DOMAIN sig_edges : sig_edges[k] # Mirror(sig_edges[l])
        /\ NoRepeat(sig_edges)

C3_TwoTailedExact ==
    (kind = "Naive" /\ arg_empirical /\ err = "none") =>
        LET u == Unique(cdata, rows)
            m == Len(u)
        IN  IF arg_sig = 0 THEN sig_edges = <<>>
            ELSE Range(sig_edges) =
                    {ij \in Upper(rows) :
                        \/ FLe(cdata[ij], PyIndex(u, FloorAlpha(arg_sig, m)))
                        \/ FGe(cdata[ij], PyIndex(u, m - CeilAlpha(arg_sig, m)))}

\* C4: on the five-feature example, BrayCurtisResults with sig_lvl = 0.2
\* takes the boundary 0.2 and selects every pair with score <= 0.2: the
\* five pairs at .1 and .2, so that actual_sig_lvl is 5/10.
C4_ExampleBoundary ==
    (kind = "BrayCurtis" /\ lastOp = "__init__" /\ rows = Len(OtuNames)
        /\ arg_sig = 2 * Tenth) =>
        /\ err = "none"
        /\ Range(sig_edges) = {ij \in Upper(rows) : cdata[ij] <= 2 * Tenth}
        /\ Len(sig_edges) = 5
        /\ actual_sig_lvl = <<5, 10>>

\* C5: after construction with a quantile strategy (NaiveResults with
\* empirical=True, BrayCurtisResults, MICResults) the object has the
\* attribute actual_sig_lvl, equal to len(edges) / (n*(n-1)/2).
C5_ActualSigLvl ==
    (Constructed /\ lastOp = "__init__"
        /\ (kind \in {"BrayCurtis", "MIC"} \/ (kind = "Naive" /\ arg_empirical))) =>
        /\ "actual_sig_lvl" \in attrs
        /\ actual_sig_lvl = <<Len(edges), (rows * (rows - 1)) \div 2>>

\* C6: BrayCurtisResults or MICResults with sig_lvl = 0 raises before the
\* input is parsed: no attribute at all is set on the object.
C6_ZeroLevelRejected ==
    (kind \in {"BrayCurtis", "MIC"} /\ lastOp = "__init__" /\ arg_sig = 0) =>
        /\ err = "ValueError"
        /\ attrs = {}
        /\ data = <<>> /\ cdata = <<>>
        /\ edges = <<>> /\ sig_otus = <<>> /\ interactions = <<>>
\* C6's case: a constructor was called with sig_lvl = 0 and raised.
C6_Witness ==
    kind = "BrayCurtis" /\ lastOp = "__init__" /\ arg_sig = 0 /\ err = "ValueError"

\* C7: for the signed types every emitted edge k has interactions[k] =
\* 'copresence' if its score is >= 0 and 'mutualExclusion' otherwise; for
\* the unsigned types every emitted edge is labelled 'copresence'.
C7_Labels ==
    /\ (Constructed /\ kind \in {"SparCC", "Naive", "RMT", "LSA"}) =>
          \A k \in DOMAIN edges :
              /\ k \in DOMAIN interactions
              /\ interactions[k] = IF FGe(cvals[k], 0) THEN "copresence"
                                   ELSE "mutualExclusion"
    /\ (Constructed /\ kind \in {"BrayCurtis", "MIC"}) =>
          \A k \in DOMAIN edges :
              k \in DOMAIN interactions /\ interactions[k] = "copresence"

\* C8: changeSignificance(s) of SparCCResults and NaiveResults completes
\* and leaves every derived field as a fresh construction at level s over
\* the same matrices would, the matrices themselves untouched.
C8_RecomputeAsFresh ==
    (lastOp = "changeSignificance") =>
        LET p == IF kind = "Naive" THEN Naive_pdata(pval_lines) ELSE pval_lines
            c == IF kind = "Naive" THEN Naive_cdata(pval_lines, cval_lines)
                 ELSE cval_lines
            se == IF kind = "Naive"
                  THEN Naive_sig_edges(rows, p, c, arg_sig, arg_empirical)
                  ELSE SparCC_sig_edges(rows, p, c, arg_sig, arg_filter)
        IN  /\ err = "none"
            /\ data = p /\ cdata = c
            /\ sig_edges = se
            /\ otu1 = Otu1Of(se) /\ otu2 = Otu2Of(se)
            /\ edges = Zip(Otu1Of(se), Otu2Of(se))
            /\ sig_otus = ListSet(Otu1Of(se) \o Otu2Of(se))
            /\ pvals = ValuesAt(p, se)
            /\ cvals = ValuesAt(c, se)
            /\ interactions = Interactions(ValuesAt(c, se))

\* The number of edge endpoints equal to x: the edges touching x, when no
\* edge is a self-pair.
Endpoints(x) ==
    Cardinality({k \in DOMAIN edges : edges[k][1] = x})
    + Cardinality({k \in DOMAIN edges : edges[k][2] = x})
PlaceIn(s, x) == CHOOSE k \in DOMAIN s : s[k] = x

\* C9: the histogram h of connectionAbundance has sum of d*h[d] equal to
\* 2*len(edges) and sum of h[d] equal to len(sig_otus); avgConnectivity is
\* the quotient of the two.
C9_DegreeSum ==
    /\ (ret.op = "connectionAbundance" /\ err = "none") =>
          /\ SumSeq([d1 \in DOMAIN ret.val |-> (d1 - 1) * ret.val[d1]]) = 2 * Len(edges)
          /\ SumSeq(ret.val) = Len(sig_otus)
    /\ (ret.op = "avgConnectivity" /\ err = "none") =>
          ret.val = <<2 * Len(edges), Len(sig_otus)>>
\* C9's case: a histogram was returned for a list of several edges, one
\* node touching more than one of them.
C9_Witness ==
    /\ ret.op = "connectionAbundance" /\ err = "none"
    /\ Len(edges) >= 2
    /\ \E x \in Range(sig_otus) : Endpoints(x) >= 2

\* What C10 says of the list v returned by otuConnectivity, ties being
\* ordered as in the sequence order.
Ranked(v, order) ==
    /\ Len(v) = Len(sig_otus)
    /\ \A x \in Range(sig_otus) : Cardinality({q \in DOMAIN v : v[q][1] = x}) = 1
    /\ \A q \in DOMAIN v : v[q][2] = Endpoints(v[q][1])
    /\ \A a, b \in DOMAIN v : a < b => v[a][2] >= v[b][2]
    /\ \A a, b \in DOMAIN v :
          (a < b /\ v[a][2] = v[b][2]) =>
              PlaceIn(order, v[a][1]) < PlaceIn(order, v[b][1])

\* C10 (as stated): otuConnectivity returns each node of sig_otus once with
\* its degree, by non-increasing degree, nodes of equal degree in the order
\* of the feature ids in the input.
C10_TiesInInputOrder == (ret.op = "otuConnectivity") => Ranked(ret.val, otu_ids)

\* C10 (amended): the same, nodes of equal degree in the order they have in
\* sig_otus, the iteration order of the set of ids.
C10_TiesInSigOtusOrder == (ret.op = "otuConnectivity") => Ranked(ret.val, sig_otus)
\* C10's case: two nodes of equal degree were returned in the reverse of
\* their input order.
C10_Witness ==
    /\ ret.op = "otuConnectivity"
    /\ \E a, b \in DOMAIN ret.val :
          /\ a < b /\ ret.val[a][2] = ret.val[b][2]
          /\ PlaceIn(otu_ids, ret.val[a][1]) > PlaceIn(otu_ids, ret.val[b][1])

RowMajorBefore(a, b) == a[1] < b[1] \/ (a[1] = b[1] /\ a[2] < b[2])
InRowMajor(s) == \A k, l \in DOMAIN s : k < l => RowMajorBefore(s[k], s[l])

\* C11 (as stated): every matrix-based extractor emits its edges in
\* row-major order of their index pairs: if (i,j) precedes (k,l) then
\* i < k, or i = k and j < l.
C11_RowMajor == (Constructed /\ kind \in MatrixKinds) => InRowMajor(sig_edges)

\* C11 (amended): the same, except that NaiveResults with empirical=True
\* emits the pairs of the upper tail (score >= ub) in row-major order and
\* after them the pairs of the lower tail (score <= lb) in row-major order.
C11_RowMajorPerTail ==
    (Constructed /\ kind \in MatrixKinds) =>
        IF kind = "Naive" /\ arg_empirical
        THEN LET ub == Naive_ub(cdata, rows, arg_sig)
                 lb == Naive_lb(cdata, rows, arg_sig)
             IN  \E k \in 0..Len(sig_edges) :
                    LET upper == SubSeq(sig_edges, 1, k)
                        lower == SubSeq(sig_edges, k + 1, Len(sig_edges))
                    IN  /\ InRowMajor(upper) /\ InRowMajor(lower)
                        /\ \A q \in DOMAIN upper : FGe(cdata[upper[q]], ub)
                        /\ \A q \in DOMAIN lower : FLe(cdata[lower[q]], lb)
        ELSE InRowMajor(sig_edges)
\* C11's case: a two-tailed selection of distinct pairs in which a pair of
\* the upper tail comes before a lower-tail pair of an earlier row or column.
C11_Witness ==
    /\ kind = "Naive" /\ arg_empirical /\ err = "none"
    /\ NoRepeat(sig_edges)
    /\ \E k, l \in DOMAIN sig_edges : k < l /\ RowMajorBefore(sig_edges[l], sig_edges[k])

\* C12: constructing any result type from input with a header and no data
\* rows, with arguments the constructor accepts, completes with an empty
\* edge list, empty sig_otus and empty interactions.
C12_HeaderOnlyGivesEmpty ==
    (/\ rows = 0 /\ kind # "none" /\ lastOp = "__init__"
     /\ kind \in {"BrayCurtis", "MIC"} => arg_sig # 0
     /\ kind = "LSA" => "filter_ind" \in attrs) =>
        /\ err = "none"
        /\ edges = <<>> /\ sig_otus = <<>> /\ interactions = <<>>

\* The place, counted from 0, of the data line for (row, column) in a file
\* of n*n data lines in row-major order.
FlatPlace(n, ij) == (ij[1] - 1) * n + (ij[2] - 1)

\* C13: LSAResults with rtype='redundant' on a header and n*n data lines in
\* row-major order examines exactly the lines at (r,c) with r < c, each
\* once and in file order; the edges are the significant ones among them,
\* so no self-pair is emitted and no pair of ids in both orders.
C13_RedundantUpperOnce ==
    (kind = "LSA" /\ err = "none") =>
        LET upper == UpperSeq(rows)
            kept == SelectSeq(upper, LAMBDA ij : FLt(pval_lines[ij], arg_sig))
        IN  /\ LSA_loi("redundant") = [k \in DOMAIN upper |-> FlatPlace(rows, upper[k])]
            /\ edges = [k \in DOMAIN kept |-> <<otu_ids[kept[k][1]], otu_ids[kept[k][2]]>>]
            /\ \A k \in DOMAIN edges : edges[k][1] # edges[k][2]
            /\ \A k, l \in DOMAIN edges : edges[k] # Mirror(edges[l])
\* C13's case: a redundant file of at least 9 data lines from which several
\* edges were kept and a pair r < c was dropped as not significant.
C13_Witness ==
    /\ kind = "LSA" /\ err = "none" /\ rows >= 3
    /\ Len(lines) = rows * rows
    /\ Len(edges) >= 2
    /\ \E ij \in Upper(rows) : ~FLt(pval_lines[ij], arg_sig)

\* C14: for BrayCurtisResults and MICResults on a fixed matrix the selection
\* is monotone in sig_lvl: for 0 < s1 <= s2 <= 1 every pair selected at s1
\* is selected at s2.
C14_MonotoneInSigLvl ==
    (kind \in {"BrayCurtis", "MIC"} /\ err = "none") =>
        \A s2 \in SigLvls :
            (arg_sig <= s2 /\ s2 <= Scale) =>
                Range(sig_edges) \subseteq
                    Range(IF kind = "BrayCurtis" THEN BC_sig_edges(rows, cdata, s2)
                          ELSE MIC_sig_edges(rows, cdata, s2))

\* C15: in every constructed object, and after every changeSignificance,
\* there is one interaction label for each edge: len(interactions) equals
\* len(edges), and so does copresences() + exclusions(), whatever the
\* scores are (NaN included).
C15_LabelsAligned ==
    Constructed =>
        /\ Len(interactions) = Len(edges)
        /\ copresences + exclusions = Len(edges)

====
